---- MODULE Spec2Model ----
(***************************************************************************)
(* Half-edge mesh of GVT-3D: Mesh construction (build_faces,               *)
(* link_halfedges), the mesh queries (get_all_edges, get_all_vertices,     *)
(* select_random_edge), the HalfEdge / Face geometry queries and the key   *)
(* handlers of GVT.py that walk the mesh.                                  *)
(*                                                                         *)
(* Object references are modelled as indices: a Vertex is its 0-based      *)
(* index in Mesh.vertices, a Face its 0-based index in Mesh.faces, a       *)
(* HalfEdge its creation number (1, 2, ...).  Coordinates are integers in  *)
(* units of 1/One.                                                         *)
(***************************************************************************)
EXTENDS Integers, Sequences, FiniteSets, TLC

VARIABLES
    input,       \* the arguments of Mesh(vertices, faces), or of load_mesh
    vertices,    \* Mesh.vertices : list of Vertex
    faces,       \* Mesh.faces    : list of Face
    hes,         \* the HalfEdge objects, by creation number
    halfedges,   \* Mesh.halfedges: dict (insertion ordered) key -> HalfEdge
    pc,          \* where the call is: "new", "built", "ready", "raised", "returned"
    ret,         \* what the last call returned or raised
    CURRENT_EDGE, \* GVT.py: the half-edge the viewer shows, or None
    items,       \* AddOnlyList._items
    appended     \* history: the arguments of the append calls, in call order

vars == <<input, vertices, faces, hes, halfedges, pc, ret, CURRENT_EDGE,
          items, appended>>

----------------------------------------------------------------------------
(* Bounds of the model *)

NumVerts == 3        \* vertices of an enumerated input
MaxFaces == 2        \* faces of an enumerated input
MaxHalfEdges == 3    \* sum of the face lengths of an enumerated input
MaxInit == 2         \* initial elements of an AddOnlyList
MaxItems == 4        \* elements of an AddOnlyList
MaxPosVerts == 3     \* vertices of an input whose positions are enumerated
One == 2             \* the integer that stands for the coordinate 1.0

----------------------------------------------------------------------------
(* Python values *)

None == 0            \* a reference attribute holding None
NoAttr == -1         \* an attribute the object does not have (HalfEdge.prev)
TwoPow24 == 16777216 \* float32 has a 24 bit significand

NoRet == [op |-> "none"]
Raised(op, exc) == [op |-> op, raised |-> exc]
IsRaise(r) == "raised" \in DOMAIN r

Abs(x) == IF x < 0 THEN -x ELSE x

\* list[i] of a Python list of length n: negative i counts from the end
ValidIndex(i, n) == -n <= i /\ i < n
PyIndex(i, n) == IF i < 0 THEN n + i ELSE i

\* the element of a list (a sequence) at a 0-based index
At(list, i) == list[i + 1]

----------------------------------------------------------------------------
(* Vertex, HalfEdge, Face *)

Vertex(x, y, z) == [x |-> x, y |-> y, z |-> z, halfedge |-> None]

HalfEdge == [vertex |-> None, opposite |-> None, next |-> None, face |-> None,
             prev |-> NoAttr]

Face == [halfedge |-> None]

get_position(v) == <<v.x, v.y, v.z>>

----------------------------------------------------------------------------
(* Mesh.halfedges, an insertion-ordered dict: a sequence of entries *)

Keys(table) == {table[i].key : i \in 1..Len(table)}

Lookup(table, key) ==
    table[CHOOSE i \in 1..Len(table) : table[i].key = key].he

\* (mutant) a known key keeps the half-edge it has
StoreKeepFirst(table, key, he) ==
    IF key \in Keys(table) THEN table
    ELSE Append(table, [key |-> key, he |-> he])

\* table[key] = he : a new key goes to the end, a known key keeps its place
\* and gets the new value
Store(table, key, he) ==
    IF key \in Keys(table)
    THEN [i \in 1..Len(table) |->
             IF table[i].key = key THEN [key |-> key, he |-> he] ELSE table[i]]
    ELSE Append(table, [key |-> key, he |-> he])

----------------------------------------------------------------------------
(* Mesh.build_faces *)

\* the state of the loops: the mesh, the loop's locals, the exception if any
LoopState(vs, fs, hs, tab) ==
    [vertices |-> vs, faces |-> fs, hes |-> hs, halfedges |-> tab,
     first |-> None, last |-> None, err |-> "none"]

\* lines 27-45: iteration i of the inner loop over face number fi
EdgeStep(st, face_indices, fi, i) ==
    LET num_vertices == Len(face_indices)
        nv == Len(st.vertices)
        start_vertex_index == At(face_indices, i)
        end_vertex_index == At(face_indices, (i + 1) % num_vertices)
    IN  IF ~ValidIndex(start_vertex_index, nv) \/ ~ValidIndex(end_vertex_index, nv)
        THEN [st EXCEPT !.err = "IndexError"]
        ELSE
        LET start_vertex == PyIndex(start_vertex_index, nv)
            end_vertex == PyIndex(end_vertex_index, nv)
            halfedge == Len(st.hes) + 1
            created == Append(st.hes,
                          [HalfEdge EXCEPT !.vertex = end_vertex, !.face = fi])
            chained == IF st.last # None
                       THEN [created EXCEPT ![st.last].next = halfedge]
                       ELSE created
        IN  [st EXCEPT
               !.hes = chained,
               !.first = IF st.first = None THEN halfedge ELSE st.first,
               !.last = halfedge,
               !.halfedges = Store(st.halfedges,
                                   <<start_vertex_index, end_vertex_index>>,
                                   halfedge),
               !.vertices = IF At(st.vertices, start_vertex).halfedge = None
                            THEN [st.vertices EXCEPT
                                     ![start_vertex + 1].halfedge = halfedge]
                            ELSE st.vertices]

RECURSIVE EdgeLoop(_, _, _, _)
EdgeLoop(st, face_indices, fi, i) ==
    IF i >= Len(face_indices) \/ st.err # "none" THEN st
    ELSE EdgeLoop(EdgeStep(st, face_indices, fi, i), face_indices, fi, i + 1)

\* lines 47-48: close the cycle, anchor the face
\* (mutant) the last half-edge is closed onto itself, not onto the first
CloseOnLast(st, fi) ==
    IF st.last = None THEN [st EXCEPT !.err = "AttributeError"]
    ELSE [st EXCEPT !.hes[st.last].next = st.last,
                    !.faces[fi + 1].halfedge = st.first]

\* (mutant) the face is anchored at its last half-edge
CloseAnchorLast(st, fi) ==
    IF st.last = None THEN [st EXCEPT !.err = "AttributeError"]
    ELSE [st EXCEPT !.hes[st.last].next = st.first,
                    !.faces[fi + 1].halfedge = st.last]

CloseCycle(st, fi) ==
    IF st.last = None THEN [st EXCEPT !.err = "AttributeError"]
    ELSE [st EXCEPT !.hes[st.last].next = st.first,
                    !.faces[fi + 1].halfedge = st.first]

\* lines 20-48: one iteration of the outer loop
FaceStep(st, face_indices) ==
    LET fi == Len(st.faces)
        opened == [st EXCEPT !.faces = Append(st.faces, Face),
                             !.first = None, !.last = None]
        looped == EdgeLoop(opened, face_indices, fi, 0)
    IN  IF looped.err # "none" THEN looped ELSE CloseCycle(looped, fi)

RECURSIVE FaceLoop(_, _, _)
FaceLoop(st, fcs, k) ==
    IF k > Len(fcs) \/ st.err # "none" THEN st
    ELSE FaceLoop(FaceStep(st, fcs[k]), fcs, k + 1)

build_faces(st, fcs) == FaceLoop(st, fcs, 1)

----------------------------------------------------------------------------
(* Mesh.link_halfedges *)

\* (mutant) the key itself is looked up
OppositeKeySame(key) == key

\* (mutant) the destination is used twice
OppositeKeyLoop(key) == <<key[2], key[2]>>

OppositeKey(key) == <<key[2], key[1]>>

\* (mutant) a pair is linked from its first entry only, and in one direction
LinkStepOneWay(hs, table, i) ==
    LET key == table[i].key
        halfedge == table[i].he
        opposite_key == OppositeKey(key)
        twinned == IF \E j \in (i + 1)..Len(table) : table[j].key = opposite_key
                   THEN [hs EXCEPT ![halfedge].opposite = Lookup(table, opposite_key)]
                   ELSE hs
    IN  IF twinned[halfedge].next # None
        THEN [twinned EXCEPT ![twinned[halfedge].next].prev = halfedge]
        ELSE twinned

\* (mutant) a half-edge that has a twin when its turn comes hands the twin
\* on as prev
LinkStepTwinAsPrev(hs, table, i) ==
    LET key == table[i].key
        halfedge == table[i].he
        opposite_key == OppositeKey(key)
        twinned == IF opposite_key \in Keys(table)
                   THEN [hs EXCEPT ![halfedge].opposite = Lookup(table, opposite_key)]
                   ELSE hs
    IN  IF twinned[halfedge].next # None
        THEN [twinned EXCEPT ![twinned[halfedge].next].prev =
                 IF hs[halfedge].opposite # None THEN hs[halfedge].opposite
                 ELSE halfedge]
        ELSE twinned

\* lines 70-77: the loop body for entry number i of the table
LinkStep(hs, table, i) ==
    LET key == table[i].key
        halfedge == table[i].he
        opposite_key == OppositeKey(key)
        twinned == IF opposite_key \in Keys(table)
                   THEN [hs EXCEPT ![halfedge].opposite = Lookup(table, opposite_key)]
                   ELSE hs
    IN  IF twinned[halfedge].next # None
        THEN [twinned EXCEPT ![twinned[halfedge].next].prev = halfedge]
        ELSE twinned

RECURSIVE LinkLoop(_, _, _)
LinkLoop(hs, table, i) ==
    IF i > Len(table) THEN hs
    ELSE LinkLoop(LinkStep(hs, table, i), table, i + 1)

link_halfedges(hs, table) == LinkLoop(hs, table, 1)

----------------------------------------------------------------------------
(* Arithmetic on the grid of multiples of 1/One *)

RECURSIVE SqrtUp(_, _)
SqrtUp(n, r) == IF (r + 1) * (r + 1) > n THEN r ELSE SqrtUp(n, r + 1)

\* the square root, rounded down to the grid
ISqrt(n) == SqrtUp(n, 0)

\* a / b rounded toward zero
Quot(a, b) == IF (a < 0) = (b < 0) THEN Abs(a) \div Abs(b)
              ELSE -(Abs(a) \div Abs(b))

\* np.linalg.norm of a vector of grid values
Norm(v) == ISqrt(v[1] * v[1] + v[2] * v[2] + v[3] * v[3])

\* Vertex.subtract
\* (mutant) Vertex.add in the place of Vertex.subtract
subtract_as_add(v1, v2) == <<v1.x + v2.x, v1.y + v2.y, v1.z + v2.z>>

subtract(v1, v2) == <<v1.x - v2.x, v1.y - v2.y, v1.z - v2.z>>

\* np.cross of two vectors of grid values: the components are in 1/One^2
\* (mutant) the operands of the cross product the other way round
CrossSwapped(a, b) == <<b[2] * a[3] - b[3] * a[2],
                        b[3] * a[1] - b[1] * a[3],
                        b[1] * a[2] - b[2] * a[1]>>

Cross(a, b) == <<a[2] * b[3] - a[3] * b[2],
                 a[3] * b[1] - a[1] * b[3],
                 a[1] * b[2] - a[2] * b[1]>>

\* the significand of a float32 is 24 bits: its unit in the last place for |x| = a
RECURSIVE Ulp(_, _)
Ulp(a, u) == IF a < TwoPow24 * u THEN u ELSE Ulp(a, 2 * u)

\* conversion to np.float32 (round to nearest, ties to even)
Float32(x) ==
    LET a == Abs(x)
        u == Ulp(a, 1)
        q == a \div u
        r == a % u
        m == IF 2 * r > u \/ (2 * r = u /\ q % 2 = 1) THEN (q + 1) * u ELSE q * u
    IN  IF x < 0 THEN -m ELSE m

\* Vertex.center
RECURSIVE SumCoord(_, _, _)
SumCoord(vs, list, c) ==
    IF list = <<>> THEN 0
    ELSE get_position(At(vs, Head(list)))[c] + SumCoord(vs, Tail(list), c)

center(vs, list) ==
    LET count == Len(list)
    IN  IF count = 0 THEN <<0, 0, 0>>
        ELSE <<Quot(SumCoord(vs, list, 1), count),
               Quot(SumCoord(vs, list, 2), count),
               Quot(SumCoord(vs, list, 3), count)>>

----------------------------------------------------------------------------
(* HalfEdge.get_vertices, HalfEdge.length *)

\* self.opposite.vertex raises when opposite is None
get_vertices(vs, hs, h) ==
    IF hs[h].opposite = None THEN Raised("get_vertices", "AttributeError")
    ELSE [op |-> "get_vertices", he |-> h,
          val |-> <<get_position(At(vs, hs[h].vertex)),
                    get_position(At(vs, hs[hs[h].opposite].vertex))>>]

length(vs, hs, h) ==
    IF hs[h].opposite = None THEN Raised("length", "AttributeError")
    ELSE [op |-> "length", he |-> h,
          val |-> Norm(subtract(At(vs, hs[h].vertex),
                                At(vs, hs[hs[h].opposite].vertex)))]

----------------------------------------------------------------------------
(* Face.normal, Face.generate_next_vertex *)

normal(vs, fs, hs, f) ==
    LET anchor == At(fs, f).halfedge
        v1 == At(vs, hs[anchor].vertex)
        v2 == At(vs, hs[hs[anchor].next].vertex)
        v3 == At(vs, hs[hs[hs[anchor].next].next].vertex)
        vec1 == subtract(v2, v1)
        vec2 == subtract(v3, v1)
        normal_vector == Cross(vec1, vec2)
        norm == Norm(normal_vector)
    IN  IF norm = 0 THEN normal_vector
        ELSE <<Quot(normal_vector[1] * One, norm),
               Quot(normal_vector[2] * One, norm),
               Quot(normal_vector[3] * One, norm)>>

\* (mutant) the walk stops one half-edge before the anchor comes back
RECURSIVE WalkStopsEarly(_, _, _, _, _, _)
WalkStopsEarly(vs, hs, anchor, halfedge, acc, fuel) ==
    IF halfedge = anchor THEN acc
    ELSE IF fuel = 0 \/ halfedge = None THEN [acc EXCEPT !.err = "diverges"]
    ELSE IF hs[halfedge].next = anchor THEN acc
    ELSE LET len == length(vs, hs, halfedge)
         IN  IF IsRaise(len) THEN [acc EXCEPT !.err = len.raised]
             ELSE WalkStopsEarly(vs, hs, anchor, hs[halfedge].next,
                       [acc EXCEPT !.total_length = @ + len.val,
                                   !.vertices = Append(@, hs[halfedge].vertex),
                                   !.edge_count = @ + 1],
                       fuel - 1)

\* lines 37-42: the walk from halfedge until the anchor comes back.  acc is
\* [vertices, edge_count, total_length, err]; fuel stops a walk that never
\* comes back to the anchor
RECURSIVE Walk(_, _, _, _, _, _)
Walk(vs, hs, anchor, halfedge, acc, fuel) ==
    IF halfedge = anchor THEN acc
    ELSE IF fuel = 0 \/ halfedge = None THEN [acc EXCEPT !.err = "diverges"]
    ELSE LET len == length(vs, hs, halfedge)
         IN  IF IsRaise(len) THEN [acc EXCEPT !.err = len.raised]
             ELSE Walk(vs, hs, anchor, hs[halfedge].next,
                       [acc EXCEPT !.total_length = @ + len.val,
                                   !.vertices = Append(@, hs[halfedge].vertex),
                                   !.edge_count = @ + 1],
                       fuel - 1)

\* lines 33-48 on a face that has an anchor
next_vertex_from_anchor(vs, fs, hs, f) ==
    LET anchor == At(fs, f).halfedge
        first == length(vs, hs, anchor)
    IN  IF IsRaise(first)
        THEN [op |-> "generate_next_vertex", face |-> f, raised |-> first.raised]
        ELSE
        LET acc == Walk(vs, hs, anchor, hs[anchor].next,
                        [vertices |-> <<hs[anchor].vertex>>, edge_count |-> 1,
                         total_length |-> first.val, err |-> "none"],
                        Len(hs))
        IN  IF acc.err # "none"
            THEN [op |-> "generate_next_vertex", face |-> f, raised |-> acc.err]
            ELSE
            LET avg_length == Quot(acc.total_length, acc.edge_count)
                c == center(vs, acc.vertices)
                n == normal(vs, fs, hs, f)
            IN  [op |-> "generate_next_vertex", face |-> f,
                 walked |-> acc.vertices, edge_count |-> acc.edge_count,
                 val |-> Vertex(c[1] - Quot(n[1] * avg_length, One),
                                c[2] - Quot(n[2] * avg_length, One),
                                c[3] - Quot(n[3] * avg_length, One))]

\* (mutant) a face without half-edges is walked with a count of 0 and the
\* average divides by it
generate_next_vertex_counting_from_zero(vs, fs, hs, f) ==
    IF At(fs, f).halfedge = None
    THEN [op |-> "generate_next_vertex", face |-> f, raised |-> "ZeroDivisionError"]
    ELSE next_vertex_from_anchor(vs, fs, hs, f)

\* line 33 reads self.halfedge.vertex: on a face without anchor that is
\* None.vertex
generate_next_vertex(vs, fs, hs, f) ==
    IF At(fs, f).halfedge = None
    THEN [op |-> "generate_next_vertex", face |-> f, raised |-> "AttributeError"]
    ELSE next_vertex_from_anchor(vs, fs, hs, f)

----------------------------------------------------------------------------
(* Mesh.get_all_edges, Mesh.get_all_vertices, Mesh.select_random_edge *)

\* self.vertices.index(v): the first index whose element equals v; a Vertex
\* defines no __eq__, so it equals only itself
VerticesIndex(vs, v) == CHOOSE i \in 0..(Len(vs) - 1) : i = v

\* (mutant) the pair is added without the look for its reverse
EdgeSetStepNoCheck(vs, hs, table, edge_set, i) ==
    LET halfedge == table[i].he
        start_vertex_index == VerticesIndex(vs, hs[halfedge].vertex)
        end_vertex_index == VerticesIndex(vs, hs[hs[halfedge].next].vertex)
    IN  edge_set \cup {<<start_vertex_index, end_vertex_index>>}

\* lines 53-56: the loop body for entry number i of the table
EdgeSetStep(vs, hs, table, edge_set, i) ==
    LET halfedge == table[i].he
        start_vertex_index == VerticesIndex(vs, hs[halfedge].vertex)
        end_vertex_index == VerticesIndex(vs, hs[hs[halfedge].next].vertex)
    IN  IF <<end_vertex_index, start_vertex_index>> \notin edge_set
        THEN edge_set \cup {<<start_vertex_index, end_vertex_index>>}
        ELSE edge_set

RECURSIVE EdgeSetLoop(_, _, _, _, _)
EdgeSetLoop(vs, hs, table, edge_set, i) ==
    IF i > Len(table) THEN edge_set
    ELSE EdgeSetLoop(vs, hs, table, EdgeSetStep(vs, hs, table, edge_set, i), i + 1)

\* the rows of the returned array, in no particular order; every index is
\* below len(vertices), which int32 holds exactly
get_all_edges(vs, hs, table) == EdgeSetLoop(vs, hs, table, {}, 1)

\* (mutant) the rows come out last vertex first
get_all_vertices_reversed(vs) ==
    [i \in 1..Len(vs) |->
        LET p == get_position(vs[Len(vs) + 1 - i])
        IN  <<Float32(p[1]), Float32(p[2]), Float32(p[3])>>]

get_all_vertices(vs) ==
    [i \in 1..Len(vs) |->
        LET p == get_position(vs[i])
        IN  <<Float32(p[1]), Float32(p[2]), Float32(p[3])>>]

\* list(self.halfedges.values())
Values(table) == [i \in 1..Len(table) |-> table[i].he]

----------------------------------------------------------------------------
(* The inputs of Mesh(vertices, faces) *)

\* index lists of at most len indices into NumVerts vertices
FaceSeqs(len) == UNION {[1..k -> 0..(NumVerts - 1)] : k \in 0..len}

\* lists of at most count faces with at most budget indices in all
RECURSIVE FaceLists(_, _)
FaceLists(budget, count) ==
    IF count = 0 THEN {<<>>}
    ELSE {<<>>} \cup
         UNION {{<<f>> \o rest : rest \in FaceLists(budget - Len(f), count - 1)} :
                f \in FaceSeqs(budget)}

\* the corners of the unit cube, in index order
DefaultPosition(i) ==
    <<(i % 2) * One, ((i \div 2) % 2) * One, ((i \div 4) % 2) * One>>

EnumInputs ==
    {[vertices |-> [i \in 1..NumVerts |-> DefaultPosition(i - 1)], faces |-> fcs] :
        fcs \in FaceLists(MaxHalfEdges, MaxFaces)}

\* a closed tetrahedron, wound consistently
Tetrahedron ==
    [vertices |-> <<<<0, 0, 0>>, <<One, 0, 0>>, <<0, One, 0>>, <<0, 0, One>>>>,
     faces |-> <<<<0, 2, 1>>, <<0, 1, 3>>, <<1, 2, 3>>, <<0, 3, 2>>>>]

\* the same tetrahedron with every face wound the other way
TetrahedronInward ==
    [vertices |-> Tetrahedron.vertices,
     faces |-> <<<<0, 1, 2>>, <<0, 3, 1>>, <<1, 3, 2>>, <<0, 2, 3>>>>]

Tetrahedra == {Tetrahedron, TetrahedronInward}

\* one square of side 1 in the plane z = 0, centred at the origin
Quad ==
    LET h == One \div 2
    IN  [vertices |-> <<<<-h, -h, 0>>, <<h, -h, 0>>, <<h, h, 0>>, <<-h, h, 0>>>>,
         faces |-> <<<<0, 1, 2, 3>>>>]

\* two triangles on the edge 0-1, both running it from 0 to 1
Fan ==
    [vertices |-> <<<<0, 0, 0>>, <<One, 0, 0>>, <<0, One, 0>>, <<0, 0, One>>>>,
     faces |-> <<<<0, 1, 2>>, <<0, 1, 3>>>>]

\* two triangles on the edge 0-1, wound consistently
Strip ==
    [vertices |-> <<<<0, 0, 0>>, <<One, 0, 0>>, <<0, One, 0>>, <<One, One, 0>>>>,
     faces |-> <<<<0, 1, 2>>, <<1, 3, 2>>>>]

\* one face that runs the edge 0-1 twice in each direction
Bowtie ==
    [vertices |-> <<<<0, 0, 0>>, <<One, 0, 0>>>>,
     faces |-> <<<<0, 1, 0, 1>>>>]

\* the triangle A = (0,0,0), B = (1,0,0), C = (0,1,0)
Triangle ==
    [vertices |-> <<<<0, 0, 0>>, <<One, 0, 0>>, <<0, One, 0>>>>,
     faces |-> <<<<0, 1, 2>>>>]

NamedInputs == Tetrahedra \cup {Quad, Fan, Strip, Bowtie, Triangle}

Inputs == EnumInputs \cup NamedInputs

\* inputs whose positions are enumerated
BigCoord == TwoPow24 + 1
Coords == {0, BigCoord}
Positions == Coords \X Coords \X Coords

PosInputs ==
    {[vertices |-> vs, faces |-> fcs] :
        vs \in UNION {[1..n -> Positions] : n \in 0..MaxPosVerts},
        fcs \in {<<>>, <<<<0, 1>>>>, <<<<0, 1, 2>>>>}}

\* one triangle, alone or with its mirror image, on enumerated positions:
\* among them are coincident, collinear and properly spread vertices
GeoPositions == {0, One, 2 * One} \X {0, One} \X {0, One}

GeoInputs ==
    {[vertices |-> vs, faces |-> fcs] :
        vs \in [1..3 -> GeoPositions],
        fcs \in {<<<<0, 1, 2>>>>, <<<<0, 1, 2>>, <<0, 2, 1>>>>}}

\* one face whose indices run past both ends of the vertex list
IdxFaceSeqs ==
    UNION {[1..k -> (-NumVerts - 1)..NumVerts] : k \in 1..MaxHalfEdges}

IdxInputs ==
    {[vertices |-> [i \in 1..NumVerts |-> DefaultPosition(i - 1)], faces |-> <<f>>] :
        f \in IdxFaceSeqs}

----------------------------------------------------------------------------
(* The state machine *)

InitWith(inputs) ==
    /\ input \in inputs
    /\ vertices = <<>>
    /\ faces = <<>>
    /\ hes = <<>>
    /\ halfedges = <<>>
    /\ pc = "new"
    /\ ret = NoRet
    /\ CURRENT_EDGE = None
    /\ items = <<>>
    /\ appended = <<>>

Init == InitWith(Inputs)

InitPos == InitWith(PosInputs)

InitIdx == InitWith(IdxInputs)

InitGeo == InitWith(GeoInputs)

\* Mesh.__init__ lines 11-13
NewVertices(positions) ==
    [i \in 1..Len(positions) |->
        Vertex(positions[i][1], positions[i][2], positions[i][3])]

\* Mesh.__init__ lines 11-15: the fields, then build_faces
Construct ==
    /\ pc = "new"
    /\ LET st == build_faces(LoopState(NewVertices(input.vertices), <<>>, <<>>, <<>>),
                             input.faces)
       IN  /\ vertices' = st.vertices
           /\ faces' = st.faces
           /\ hes' = st.hes
           /\ halfedges' = st.halfedges
           /\ pc' = IF st.err = "none" THEN "built" ELSE "raised"
           /\ ret' = IF st.err = "none" THEN NoRet ELSE Raised("Mesh", st.err)
    /\ UNCHANGED <<input, CURRENT_EDGE, items, appended>>

\* Mesh.__init__ line 16: link_halfedges, and the constructor returns
LinkHalfedges ==
    /\ pc = "built"
    /\ hes' = link_halfedges(hes, halfedges)
    /\ pc' = "ready"
    /\ ret' = [op |-> "Mesh"]
    /\ UNCHANGED <<input, vertices, faces, halfedges, CURRENT_EDGE, items, appended>>

\* (mutant) the point generate_next_vertex returns joins the vertex list
QueryAdding(r) ==
    /\ pc = "ready"
    /\ ret' = r
    /\ vertices' = IF r.op = "generate_next_vertex" /\ ~IsRaise(r)
                   THEN Append(vertices, r.val)
                   ELSE vertices
    /\ UNCHANGED <<input, faces, hes, halfedges, pc, CURRENT_EDGE, items, appended>>

\* none of the query methods assigns to a field of the mesh or of its
\* vertices, faces and half-edges: a call leaves only its result
Query(r) ==
    /\ pc = "ready"
    /\ ret' = r
    /\ UNCHANGED <<input, vertices, faces, hes, halfedges, pc, CURRENT_EDGE, items, appended>>

GetAllEdges ==
    Query([op |-> "get_all_edges", val |-> get_all_edges(vertices, hes, halfedges)])

GetAllVertices ==
    Query([op |-> "get_all_vertices", val |-> get_all_vertices(vertices)])

\* random.choice raises IndexError on an empty list
SelectRandomEdge ==
    IF halfedges = <<>> THEN Query(Raised("select_random_edge", "IndexError"))
    ELSE \E i \in 1..Len(halfedges) :
            Query([op |-> "select_random_edge", val |-> Values(halfedges)[i]])

HalfEdgeLength == \E h \in 1..Len(hes) : Query(length(vertices, hes, h))

HalfEdgeGetVertices == \E h \in 1..Len(hes) : Query(get_vertices(vertices, hes, h))

FaceNormal ==
    \E f \in 0..(Len(faces) - 1) :
        Query([op |-> "normal", face |-> f, val |-> normal(vertices, faces, hes, f)])

FaceGenerateNextVertex ==
    \E f \in 0..(Len(faces) - 1) : Query(generate_next_vertex(vertices, faces, hes, f))

Next ==
    \/ Construct
    \/ LinkHalfedges
    \/ GetAllEdges
    \/ GetAllVertices
    \/ SelectRandomEdge
    \/ HalfEdgeLength
    \/ HalfEdgeGetVertices
    \/ FaceNormal
    \/ FaceGenerateNextVertex

Spec == Init /\ [][Next]_vars

\* construction and the queries that read no squared coordinate
NextPos ==
    \/ Construct
    \/ LinkHalfedges
    \/ GetAllEdges
    \/ GetAllVertices
    \/ SelectRandomEdge

SpecPos == InitPos /\ [][NextPos]_vars

\* link_halfedges called once more on the constructed mesh
LinkAgain ==
    /\ pc = "ready"
    /\ hes' = link_halfedges(hes, halfedges)
    /\ ret' = [op |-> "link_halfedges"]
    /\ UNCHANGED <<input, vertices, faces, halfedges, pc, CURRENT_EDGE, items, appended>>

NextLink ==
    \/ Construct
    \/ LinkHalfedges
    \/ LinkAgain

SpecLink == Init /\ [][NextLink]_vars

----------------------------------------------------------------------------
(* GVT.py: the key handlers.  main builds the mesh and stores it in MESH   *)
(* before it registers them (lines 40-48), so a handler runs on a          *)
(* constructed mesh.                                                       *)

\* what render_half_edge raises: it calls get_vertices and length on its
\* argument, and None has neither
render_half_edge(vs, hs, halfedge) ==
    IF halfedge = None THEN "AttributeError"
    ELSE IF IsRaise(get_vertices(vs, hs, halfedge))
         THEN get_vertices(vs, hs, halfedge).raised
    ELSE IF IsRaise(length(vs, hs, halfedge))
         THEN length(vs, hs, halfedge).raised
    ELSE "none"

\* a handler leaves CURRENT_EDGE at edge and ends normally or with err
KeyPress(op, edge, err) ==
    /\ pc = "ready"
    /\ CURRENT_EDGE' = edge
    /\ ret' = IF err = "none" THEN [op |-> op] ELSE Raised(op, err)
    /\ UNCHANGED <<input, vertices, faces, hes, halfedges, pc, items, appended>>

\* the assignment of a handler, then render_half_edge on the new value
MoveTo(op, edge) == KeyPress(op, edge, render_half_edge(vertices, hes, edge))

on_r_press ==
    IF halfedges = <<>> THEN KeyPress("on_r_press", CURRENT_EDGE, "IndexError")
    ELSE \E i \in 1..Len(halfedges) : MoveTo("on_r_press", Values(halfedges)[i])

\* reading a prev that was never set raises before the assignment
on_a_press ==
    IF CURRENT_EDGE = None THEN KeyPress("on_a_press", CURRENT_EDGE, "none")
    ELSE IF hes[CURRENT_EDGE].prev = NoAttr
         THEN KeyPress("on_a_press", CURRENT_EDGE, "AttributeError")
    ELSE MoveTo("on_a_press", hes[CURRENT_EDGE].prev)

on_d_press ==
    IF CURRENT_EDGE = None THEN KeyPress("on_d_press", CURRENT_EDGE, "none")
    ELSE MoveTo("on_d_press", hes[CURRENT_EDGE].next)

on_space_press ==
    IF CURRENT_EDGE = None THEN KeyPress("on_space_press", CURRENT_EDGE, "none")
    ELSE MoveTo("on_space_press", hes[CURRENT_EDGE].opposite)

NextNav ==
    \/ Construct
    \/ LinkHalfedges
    \/ on_r_press
    \/ on_a_press
    \/ on_d_press
    \/ on_space_press

SpecNav == Init /\ [][NextNav]_vars

\* Face().generate_next_vertex(): the call on a face made on its own, which
\* has no half-edge
NewFaceGenerateNextVertex ==
    /\ pc = "ready"
    /\ ret' = [op |-> "Face().generate_next_vertex",
               result |-> generate_next_vertex(vertices, <<Face>>, hes, 0)]
    /\ UNCHANGED <<input, vertices, faces, hes, halfedges, pc, CURRENT_EDGE, items, appended>>

\* construction and the geometry queries
NextGeo ==
    \/ Construct
    \/ LinkHalfedges
    \/ HalfEdgeLength
    \/ FaceNormal
    \/ FaceGenerateNextVertex
    \/ NewFaceGenerateNextVertex

SpecGeo == InitGeo /\ [][NextGeo]_vars

\* the whole of Mesh on the inputs with indices of any sign
SpecIdx == InitIdx /\ [][Next]_vars

----------------------------------------------------------------------------
(* src/gvt/importer.py: MeshImporter.load_mesh and the files it looks for. *)
(* The call and the file system are the input: whether the path is         *)
(* absolute, its suffix, the places where a file of that name exists       *)
(* ("given": the absolute path itself; "root": under ROOT_DIR; "data":     *)
(* under DATA_DIR; "walk": somewhere in the tree of DATA_DIR), whether it  *)
(* is a regular readable file, and what the reader makes of its content.   *)

SUPPORTED_FORMATS == {".vtk", ".obj", ".ply", ".stl"}

Suffixes == SUPPORTED_FORMATS \cup {".OBJ", ".txt", ""}

Places == {"given", "root", "data", "walk"}

Contents == {"mesh", "corrupt", "no_points", "no_cells"}

LoadInputs ==
    [isabs : BOOLEAN, suffix : Suffixes, found : SUBSET Places,
     isfile : BOOLEAN, readable : BOOLEAN, content : Contents,
     preprocess : BOOLEAN]

\* how a function ends: with its value, or with the exception it raises
Done(val) == [err |-> "none", val |-> val]
Fail(exc) == [err |-> exc]

\* str.lower() on a suffix
Lower(suffix) == IF suffix = ".OBJ" THEN ".obj" ELSE suffix

\* os.walk lists regular files only
resolve_data_path(w) ==
    IF w.isabs
    THEN IF "given" \in w.found THEN Done("given") ELSE Fail("FileNotFoundError")
    ELSE IF "root" \in w.found THEN Done("root")
    ELSE IF "data" \in w.found THEN Done("data")
    ELSE IF "walk" \in w.found /\ w.isfile THEN Done("walk")
    ELSE Fail("FileNotFoundError")

get_file_extension(w) == Lower(w.suffix)

validate_file_path(w) == w.isfile /\ w.readable

validate_file_format(w) == Lower(w.suffix) \in SUPPORTED_FORMATS

validate_polydata(mesh) == mesh \notin {"no_points", "no_cells"}

\* _load_by_extension: whatever is raised inside leaves as RuntimeError
load_by_extension(w) ==
    LET extension == get_file_extension(w)
        mesh == IF extension \in {".vtk", ".obj", ".ply", ".stl"}
                THEN IF w.content = "corrupt" THEN Fail("Exception")
                     ELSE Done(w.content)
                ELSE Fail("ValueError")
    IN  IF mesh.err # "none" THEN Fail("RuntimeError") ELSE mesh

\* the body of the try block of load_mesh
load_mesh_try(w) ==
    LET resolved_path == resolve_data_path(w)
    IN  IF resolved_path.err # "none" THEN resolved_path
        ELSE IF ~validate_file_path(w) THEN Fail("FileNotFoundError")
        ELSE IF ~validate_file_format(w) THEN Fail("ValueError")
        ELSE LET mesh == load_by_extension(w)
             IN  IF mesh.err # "none" THEN mesh
                 ELSE IF ~validate_polydata(mesh.val) THEN Fail("ValueError")
                 ELSE Done([path |-> resolved_path.val,
                            preprocessed |-> w.preprocess])

\* except Exception as e: raise RuntimeError(...) from e
load_mesh(w) ==
    LET r == load_mesh_try(w)
    IN  IF r.err # "none"
        THEN [op |-> "load_mesh", raised |-> "RuntimeError", cause |-> r.err]
        ELSE [op |-> "load_mesh", val |-> r.val]

InitLoad == InitWith(LoadInputs)

LoadMesh ==
    /\ pc = "new"
    /\ ret' = load_mesh(input)
    /\ pc' = IF IsRaise(load_mesh(input)) THEN "raised" ELSE "returned"
    /\ UNCHANGED <<input, vertices, faces, hes, halfedges, CURRENT_EDGE, items, appended>>

ResolveDataPath ==
    /\ pc = "new"
    /\ LET r == resolve_data_path(input)
       IN  /\ ret' = IF r.err # "none" THEN Raised("resolve_data_path", r.err)
                     ELSE [op |-> "resolve_data_path", val |-> r.val]
           /\ pc' = IF r.err # "none" THEN "raised" ELSE "returned"
    /\ UNCHANGED <<input, vertices, faces, hes, halfedges, CURRENT_EDGE, items, appended>>

NextLoad ==
    \/ LoadMesh
    \/ ResolveDataPath

SpecLoad == InitLoad /\ [][NextLoad]_vars

----------------------------------------------------------------------------
(* AddOnlyList.py *)

Elements == {"a", "b"}

\* AddOnlyList(elements): elements is None (is_none) or an iterable
ListInputs ==
    {[is_none |-> TRUE, elements |-> <<>>]} \cup
    {[is_none |-> FALSE, elements |-> es] :
        es \in UNION {[1..n -> Elements] : n \in 0..MaxInit}}

\* (mutant) the item goes to the front
append_front(its, item) == <<item>> \o its

\* self._items.append(item)
append(its, item) == Append(its, item)

\* lines 3-6: a new list, filled from elements one by one
RECURSIVE CopyLoop(_, _, _)
CopyLoop(its, elements, k) ==
    IF k > Len(elements) THEN its
    ELSE CopyLoop(Append(its, elements[k]), elements, k + 1)

AddOnlyList(arg) ==
    IF arg.is_none THEN <<>> ELSE CopyLoop(<<>>, arg.elements, 1)

\* self._items[index], index an integer
getitem(its, index) ==
    IF ValidIndex(index, Len(its))
    THEN [op |-> "__getitem__", index |-> index,
          val |-> At(its, PyIndex(index, Len(its)))]
    ELSE [op |-> "__getitem__", index |-> index, raised |-> "IndexError"]

InitList == InitWith(ListInputs)

NewList ==
    /\ pc = "new"
    /\ items' = AddOnlyList(input)
    /\ pc' = "ready"
    /\ ret' = [op |-> "AddOnlyList"]
    /\ UNCHANGED <<input, vertices, faces, hes, halfedges, CURRENT_EDGE, appended>>

ListAppend ==
    /\ pc = "ready"
    /\ Len(items) < MaxItems
    /\ \E item \in Elements :
          /\ items' = append(items, item)
          /\ appended' = Append(appended, item)
          /\ ret' = [op |-> "append", item |-> item]
    /\ UNCHANGED <<input, vertices, faces, hes, halfedges, pc, CURRENT_EDGE>>

\* the calls that only read
ListRead(r) ==
    /\ pc = "ready"
    /\ ret' = r
    /\ UNCHANGED <<input, vertices, faces, hes, halfedges, pc, CURRENT_EDGE,
                   items, appended>>

ListGetItem ==
    \E index \in (-Len(items) - 1)..Len(items) : ListRead(getitem(items, index))

ListLen == ListRead([op |-> "__len__", val |-> Len(items)])

\* what a loop over the list sees
ListIter == ListRead([op |-> "__iter__", val |-> items])

NextList ==
    \/ NewList
    \/ ListAppend
    \/ ListGetItem
    \/ ListLen
    \/ ListIter

SpecList == InitList /\ [][NextList]_vars

----------------------------------------------------------------------------
(* Vocabulary of the properties *)

Ready == pc = "ready"

HEs == 1..Len(hes)

\* the directed edge at position i (0-based) of an index list
EdgeAt(face_indices, i) ==
    <<At(face_indices, i), At(face_indices, (i + 1) % Len(face_indices))>>

DirectedEdges(face_indices) ==
    {EdgeAt(face_indices, i) : i \in 0..(Len(face_indices) - 1)}

InputFaces == 1..Len(input.faces)

AllDirectedEdges == UNION {DirectedEdges(input.faces[k]) : k \in InputFaces}

\* the faces of the input that hold a directed edge
FacesWith(e) == {k \in InputFaces : e \in DirectedEdges(input.faces[k])}

EveryDirectedEdgeInAtMostOneFace ==
    \A e \in AllDirectedEdges : Cardinality(FacesWith(e)) <= 1

\* every directed edge is made once: by one face, at one position
EveryDirectedEdgeOnce ==
    /\ EveryDirectedEdgeInAtMostOneFace
    /\ \A k \in InputFaces :
          \A i, j \in 0..(Len(input.faces[k]) - 1) :
              EdgeAt(input.faces[k], i) = EdgeAt(input.faces[k], j) => i = j

\* at least 3 indices, no two of them the same vertex
ProperFace(face_indices) ==
    /\ Len(face_indices) >= 3
    /\ \A i, j \in 1..Len(face_indices) :
          face_indices[i] = face_indices[j] => i = j

RECURSIVE NextIter(_, _)
NextIter(h, k) == IF k = 0 THEN h ELSE NextIter(hes[h].next, k - 1)

\* the half-edge whose next is h, and the vertex h starts from
Pred(h) == CHOOSE p \in HEs : hes[p].next = h
Origin(h) == hes[Pred(h)].vertex

HasBoundary == \E h \in HEs : hes[h].opposite = None

----------------------------------------------------------------------------
(* C1 *)

\* C1: after construction from input in which every directed edge occurs in
\* at most one face, every half-edge he satisfies he.next.prev == he.
C1_NextPrev ==
    (Ready /\ EveryDirectedEdgeInAtMostOneFace) =>
        \A h \in HEs : hes[hes[h].next].prev = h

----------------------------------------------------------------------------
(* C2 *)

\* C2: on every constructed mesh, every half-edge he whose opposite is present
\* satisfies he.opposite.opposite == he, and so the two have the same vertex.
C2_TwinInvolution ==
    Ready =>
        \A h \in HEs :
            hes[h].opposite # None =>
                /\ hes[hes[h].opposite].opposite = h
                /\ hes[hes[hes[h].opposite].opposite].vertex = hes[h].vertex

\* a constructed mesh with a half-edge twinned with another half-edge, built
\* from input that repeats a directed edge
C2_Witness ==
    /\ Ready
    /\ ~EveryDirectedEdgeOnce
    /\ \E h \in HEs : hes[h].opposite \notin {None, h}

----------------------------------------------------------------------------
(* C3 *)

\* C3: for every face f of a constructed mesh, following next from f.halfedge
\* comes back to f.halfedge after exactly degree(f) steps and not earlier, and
\* every half-edge on the way has face == f.
C3_FaceClosure ==
    Ready =>
        \A f \in 0..(Len(faces) - 1) :
            LET anchor == At(faces, f).halfedge
                degree == Len(input.faces[f + 1])
            IN  /\ NextIter(anchor, degree) = anchor
                /\ \A k \in 1..(degree - 1) : NextIter(anchor, k) # anchor
                /\ \A k \in 0..(degree - 1) : hes[NextIter(anchor, k)].face = f

\* a constructed mesh of two faces, one of them of degree 3 or more
C3_Witness ==
    /\ Ready
    /\ Len(faces) >= 2
    /\ \E k \in InputFaces : Len(input.faces[k]) >= 3

----------------------------------------------------------------------------
(* C4 *)

\* C4: after construction, for each table entry (a,b) -> h, h.opposite is the
\* half-edge stored under (b,a) when that key is in the table and None
\* otherwise; when present it ends at vertex a and starts from vertex b.
C4_TwinLinking ==
    Ready =>
        \A i \in 1..Len(halfedges) :
            LET a == halfedges[i].key[1]
                b == halfedges[i].key[2]
                h == halfedges[i].he
            IN  IF <<b, a>> \in Keys(halfedges)
                THEN /\ hes[h].opposite = Lookup(halfedges, <<b, a>>)
                     /\ hes[hes[h].opposite].vertex = PyIndex(a, Len(vertices))
                     /\ Origin(hes[h].opposite) = PyIndex(b, Len(vertices))
                ELSE hes[h].opposite = None

\* a constructed mesh with a twinned entry and a boundary entry
C4_Witness ==
    /\ Ready
    /\ \E i, j \in 1..Len(halfedges) :
          /\ hes[halfedges[i].he].opposite \notin {None, halfedges[i].he}
          /\ <<halfedges[j].key[2], halfedges[j].key[1]>> \notin Keys(halfedges)

----------------------------------------------------------------------------
(* C5 *)

\* the undirected edges of the input, each as the set of its end points
UndirectedEdges == {{e[1], e[2]} : e \in AllDirectedEdges}

\* C5: on a constructed mesh whose faces each list at least 3 distinct
\* vertices, get_all_edges() returns exactly E pairs, E the number of
\* undirected edges of the input: each pair has two distinct indices, every
\* undirected edge appears, and none appears twice.
C5_AllEdges ==
    (/\ ret.op = "get_all_edges"
     /\ \A k \in InputFaces : ProperFace(input.faces[k])) =>
        /\ Cardinality(ret.val) = Cardinality(UndirectedEdges)
        /\ \A p \in ret.val : p[1] # p[2]
        /\ \A u \in UndirectedEdges : \E p \in ret.val : {p[1], p[2]} = u
        /\ \A p, q \in ret.val : {p[1], p[2]} = {q[1], q[2]} => p = q

----------------------------------------------------------------------------
(* C6 *)

\* C6 as stated: get_all_vertices() returns as many rows as there are input
\* vertices, and row i is the position of input vertex i.
C6_VerticesPassThrough ==
    ret.op = "get_all_vertices" =>
        /\ Len(ret.val) = Len(input.vertices)
        /\ \A i \in 1..Len(ret.val) : ret.val[i] = input.vertices[i]

\* C6, amended: get_all_vertices() returns as many rows as there are input
\* vertices, and row i is the position of input vertex i with each coordinate
\* rounded to single precision; no reordering, no vertex dropped.
C6_VerticesFloat32 ==
    ret.op = "get_all_vertices" =>
        /\ Len(ret.val) = Len(input.vertices)
        /\ \A i \in 1..Len(ret.val) :
              ret.val[i] = <<Float32(input.vertices[i][1]),
                             Float32(input.vertices[i][2]),
                             Float32(input.vertices[i][3])>>

\* get_all_vertices() has returned three rows, no two alike, for a mesh whose
\* one face leaves out the last vertex, and a coordinate was rounded
C6_Witness ==
    /\ ret.op = "get_all_vertices"
    /\ Len(ret.val) = 3
    /\ input.faces = <<<<0, 1>>>>
    /\ Cardinality({ret.val[i] : i \in 1..3}) = 3
    /\ ret.val[3] # input.vertices[3]

----------------------------------------------------------------------------
(* C7 *)

\* C7: for a closed tetrahedron the constructed mesh has 12 half-edges, each
\* with an opposite, and get_all_edges() returns exactly 6 pairs.
C7_Tetrahedron ==
    (Ready /\ input \in Tetrahedra) =>
        /\ Len(hes) = 12
        /\ Len(halfedges) = 12
        /\ \A h \in HEs : hes[h].opposite # None
        /\ ret.op = "get_all_edges" => Cardinality(ret.val) = 6

\* get_all_edges() has returned for the tetrahedron
C7_Witness ==
    /\ Ready
    /\ input = Tetrahedron
    /\ ret.op = "get_all_edges"

----------------------------------------------------------------------------
(* C8 *)

\* C8: for the mesh of the single quad [0,1,2,3] all 4 half-edges have
\* opposite None after construction.
C8_QuadBoundary ==
    (Ready /\ input = Quad) =>
        /\ Len(hes) = 4
        /\ \A h \in HEs : hes[h].opposite = None

\* the quad has been constructed
C8_Witness == Ready /\ input = Quad /\ ret.op = "Mesh"

----------------------------------------------------------------------------
(* C9 *)

\* C9: on a mesh with boundary edges, HalfEdge.length(), HalfEdge.get_vertices()
\* and Face.generate_next_vertex() complete without failing for every half-edge
\* and every face.
C9_NoTwinNoError ==
    (Ready /\ HasBoundary /\ ret.op \in {"length", "get_vertices", "generate_next_vertex"})
        => ~IsRaise(ret)

----------------------------------------------------------------------------
(* C10 *)

\* C10: construction from input with a face of fewer than 3 indices fails: the
\* constructor raises and returns no mesh.
C10_ShortFaceRejected ==
    (\E k \in InputFaces : Len(input.faces[k]) < 3) => ~Ready

----------------------------------------------------------------------------
(* C11 .. C20 *)

\* C11: an input with a vertex index outside 0..n-1, too large or negative,
\* never yields a mesh: construction raises
C11_IndexOutsideRangeRejected ==
    (\E k \in InputFaces : \E i \in 1..Len(input.faces[k]) :
        input.faces[k][i] \notin 0..(Len(input.vertices) - 1)) => ~Ready

\* a step from a half-edge of the mesh ends on one, and the space key on a
\* half-edge without twin does not raise
KeyKeepsCursor ==
    CURRENT_EDGE \in HEs =>
        /\ CURRENT_EDGE' \in HEs
        /\ (hes[CURRENT_EDGE].opposite = None /\ ret'.op = "on_space_press")
               => ~IsRaise(ret')

\* C12: once the viewer shows a half-edge of the mesh, every key leaves it
\* on a half-edge of the mesh, and the space key on a half-edge without
\* twin neither raises nor sets it to None
C12_CursorStaysValid == [][KeyKeepsCursor]_vars

\* C13: on every constructed mesh, duplicate directed edges or not, every
\* half-edge has a next and a prev, and its prev is the half-edge of its own
\* face whose next it is
C13_EveryHalfEdgeLinked ==
    Ready =>
        \A h \in HEs :
            /\ hes[h].next \in HEs
            /\ hes[h].prev \in HEs
            /\ hes[hes[h].prev].next = h
            /\ hes[hes[h].prev].face = hes[h].face

\* C14: the normal of the single face [0,1,2] on A = (0,0,0), B = (1,0,0),
\* C = (0,1,0) is (0,0,1)
C14_TriangleNormal ==
    (input = Triangle /\ ret.op = "normal") => ret.val = <<0, 0, One>>

C14_Witness ==
    /\ Ready
    /\ input = Triangle
    /\ ret.op = "normal"
    /\ ret.face = 0

\* the position of the vertex a half-edge points to
HeadPosition(h) == get_position(At(vertices, hes[h].vertex))

\* p, q, r lie on one line (or coincide): q - p and r - p are linearly
\* dependent.  Integer vectors with entries up to d in size are dependent
\* exactly when s(q - p) = t(r - p) for integers s, t up to d, not both 0
Collinear(p, q, r) ==
    LET d == 2 * One
    IN  \E s, t \in -d..d :
            /\ <<s, t>> # <<0, 0>>
            /\ \A i \in 1..3 : s * (q[i] - p[i]) = t * (r[i] - p[i])

\* the three vertices normal() reads for face f are on one line
DegenerateFace(f) ==
    LET anchor == At(faces, f).halfedge
    IN  Collinear(HeadPosition(anchor),
                  HeadPosition(hes[anchor].next),
                  HeadPosition(hes[hes[anchor].next].next))

\* C15: when the heads of the anchor, its next and next.next are collinear
\* or coincident, normal() returns the zero vector
C15_DegenerateNormal ==
    (ret.op = "normal" /\ DegenerateFace(ret.face)) => ret.val = <<0, 0, 0>>

\* a normal taken on three distinct points of one line
C15_Witness ==
    /\ ret.op = "normal"
    /\ DegenerateFace(ret.face)
    /\ Cardinality({input.vertices[i] : i \in 1..3}) = 3

\* C16: on the mesh of the one unit square centred at the origin in the
\* plane z = 0, generate_next_vertex() returns a vertex with x = y = 0 and
\* z = 1 or z = -1
C16_SquareNextVertex ==
    (input = Quad /\ ret.op = "generate_next_vertex") =>
        /\ ~IsRaise(ret)
        /\ ret.val.x = 0
        /\ ret.val.y = 0
        /\ Abs(ret.val.z) = One

\* the sum of the vertex counts of the faces
RECURSIVE FaceDegreeSum(_)
FaceDegreeSum(fcs) ==
    IF fcs = <<>> THEN 0 ELSE Len(Head(fcs)) + FaceDegreeSum(Tail(fcs))

\* C17: after construction the half-edge table holds as many half-edges as
\* the input faces have vertices in all
C17_TableSizeIsDegreeSum ==
    Ready => Len(halfedges) = FaceDegreeSum(input.faces)

QueryOps ==
    {"get_all_edges", "get_all_vertices", "select_random_edge", "normal",
     "generate_next_vertex", "length", "get_vertices"}

\* a step that ends a query leaves vertices, faces, half-edges and table
QueryLeavesMesh ==
    ret'.op \in QueryOps => UNCHANGED <<vertices, faces, hes, halfedges>>

\* C18: get_all_edges, get_all_vertices, select_random_edge, Face.normal,
\* Face.generate_next_vertex, HalfEdge.length and HalfEdge.get_vertices
\* leave the mesh as it was; the point generate_next_vertex returns is not
\* added to it
C18_QueriesArePureReads == [][QueryLeavesMesh]_vars

\* generate_next_vertex has returned a point and the mesh has its vertices
C18_Witness ==
    /\ ret.op = "generate_next_vertex"
    /\ ~IsRaise(ret)
    /\ Len(vertices) = Len(input.vertices)
    /\ \A i \in 1..Len(vertices) : get_position(vertices[i]) = input.vertices[i]

\* the half-edges select_random_edge can return
PossibleResults == {Values(halfedges)[i] : i \in 1..Len(halfedges)}

\* C19: select_random_edge() returns a half-edge build_faces created, and
\* every half-edge build_faces created, one per consecutive vertex pair of
\* every face, is a possible result
C19_DrawsFromAllHalfEdges ==
    /\ (ret.op = "select_random_edge" /\ ~IsRaise(ret)) => ret.val \in HEs
    /\ Ready =>
          /\ Len(hes) = FaceDegreeSum(input.faces)
          /\ PossibleResults = HEs

\* C20: a failure of load_mesh reaches the caller with the type the
\* docstring names for it: FileNotFoundError for a file not found or not
\* accessible, ValueError for an unsupported format or an invalid mesh,
\* RuntimeError for a failed read
C20_DocumentedExceptionTypes ==
    (ret.op = "load_mesh" /\ IsRaise(ret)) => ret.raised = ret.cause

----------------------------------------------------------------------------
(* C21 .. C29 *)

\* build_faces has run to its end
Built == pc \in {"built", "ready"}

\* the directed edges that more than one face of the input holds
SharedDirectedEdges == {e \in AllDirectedEdges : Cardinality(FacesWith(e)) > 1}

\* the last face, in input order, of a set of faces
LastFace(ks) == CHOOSE k \in ks : \A j \in ks : j <= k

\* C21: when a directed edge (a,b) occurs in more than one face (and no
\* face is empty), construction does not raise, the table has exactly one
\* entry per distinct directed edge of the input, and the entry of (a,b) is
\* the half-edge of the last face in input order that holds (a,b)
C21_SilentOverwrite ==
    (/\ pc # "new"
     /\ SharedDirectedEdges # {}
     /\ \A k \in InputFaces : input.faces[k] # <<>>) =>
        /\ Built
        /\ Keys(halfedges) = AllDirectedEdges
        /\ Len(halfedges) = Cardinality(AllDirectedEdges)
        /\ \A e \in SharedDirectedEdges :
              hes[Lookup(halfedges, e)].face = LastFace(FacesWith(e)) - 1

\* build_faces has run on two triangles that both hold the edge (0,1)
C21_Witness ==
    /\ pc = "built"
    /\ input = Fan
    /\ <<0, 1>> \in SharedDirectedEdges

\* the creation number of the half-edge made for position i (0-based) of
\* input face k (1-based): half-edges are numbered as they are made
Created(k, i) == FaceDegreeSum(SubSeq(input.faces, 1, k - 1)) + i + 1

\* C22: the mesh has one face per input polygon, in input order; the anchor
\* of the face made from [i0, ..., i(k-1)] is the half-edge made for the
\* pair (i0, i1), and j next-steps from it lead to a half-edge of that face
\* whose head is vertex i((j+1) mod k)
C22_OrderAndWinding ==
    Ready =>
        /\ Len(faces) = Len(input.faces)
        /\ \A k \in InputFaces :
              LET face_indices == input.faces[k]
                  anchor == faces[k].halfedge
              IN  /\ anchor = Created(k, 0)
                  /\ \A j \in 0..(Len(face_indices) - 1) :
                        /\ hes[NextIter(anchor, j)].vertex =
                               At(face_indices, (j + 1) % Len(face_indices))
                        /\ hes[NextIter(anchor, j)].face = k - 1

\* two triangles have been built, the second one from [1,3,2]
C22_Witness ==
    /\ Ready
    /\ input = Strip
    /\ hes[NextIter(faces[2].halfedge, 1)].vertex = 2

\* the positions <<k, i>> of the input where a directed pair starts at v
PairsFrom(v) ==
    {p \in UNION {{<<k, i>> : i \in 0..(Len(input.faces[k]) - 1)} : k \in InputFaces} :
        At(input.faces[p[1]], p[2]) = v}

\* the half-edge made for the first of them, in face order then position
\* order
FirstFrom(v) ==
    LET made == {Created(p[1], p[2]) : p \in PairsFrom(v)}
    IN  CHOOSE h \in made : \A g \in made : h <= g

\* C23: on a constructed mesh the representative of a vertex v that occurs
\* in a face is the half-edge made for the first directed pair starting at
\* v, whose prev has head v; a vertex that occurs in no face has None
C23_FirstSeenRepresentative ==
    Ready =>
        \A v \in 0..(Len(vertices) - 1) :
            IF PairsFrom(v) = {} THEN At(vertices, v).halfedge = None
            ELSE /\ At(vertices, v).halfedge = FirstFrom(v)
                 /\ hes[FirstFrom(v)].prev \in HEs
                 /\ hes[hes[FirstFrom(v)].prev].vertex = v

\* a step that ends a second link_halfedges leaves the mesh as it was
LinkAgainKeepsMesh ==
    ret'.op = "link_halfedges" => UNCHANGED <<vertices, faces, hes, halfedges>>

\* C24: link_halfedges called again on a constructed mesh leaves opposite,
\* prev and every other reference of every half-edge as the first call
\* left them
C24_LinkIdempotent == [][LinkAgainKeepsMesh]_vars

\* link_halfedges has run again on a mesh with a twin pair
C24_Witness ==
    /\ ret.op = "link_halfedges"
    /\ \E h \in HEs : hes[h].opposite \in HEs \ {h} /\ hes[h].prev \in HEs

\* the half-edges of face f (0-based), from its anchor along next
FaceCycle(f) ==
    [j \in 1..Len(input.faces[f + 1]) |-> NextIter(At(faces, f).halfedge, j - 1)]

\* C25: on a face whose half-edges all have a twin, generate_next_vertex
\* ends, having counted as many edges as the face has and collected the
\* heads of its half-edges in the order of the cycle from the anchor
C25_WalkVisitsCycleOnce ==
    (/\ ret.op = "generate_next_vertex"
     /\ \A j \in 1..Len(FaceCycle(ret.face)) :
           hes[FaceCycle(ret.face)[j]].opposite # None) =>
        /\ ~IsRaise(ret)
        /\ ret.edge_count = Len(input.faces[ret.face + 1])
        /\ ret.walked = [j \in 1..Len(FaceCycle(ret.face)) |->
                            hes[FaceCycle(ret.face)[j]].vertex]

\* the walk has gone round a triangle of the tetrahedron
C25_Witness ==
    /\ ret.op = "generate_next_vertex"
    /\ ~IsRaise(ret)
    /\ input = Tetrahedron
    /\ ret.edge_count = 3

\* C26 as stated: generate_next_vertex on a face with zero edges ends in a
\* division by zero
C26_ZeroEdgeFaceDividesByZero ==
    ret.op = "Face().generate_next_vertex" =>
        /\ IsRaise(ret.result)
        /\ ret.result.raised = "ZeroDivisionError"

\* C26: generate_next_vertex on a face with zero edges raises
\* AttributeError at its first statement, and a call that reaches the
\* average divides by an edge count of at least 1
C26_ZeroEdgeFaceAttributeError ==
    /\ ret.op = "Face().generate_next_vertex" =>
          /\ IsRaise(ret.result)
          /\ ret.result.raised = "AttributeError"
    /\ (ret.op = "generate_next_vertex" /\ ~IsRaise(ret)) => ret.edge_count >= 1

\* the call on a face without half-edges has ended
C26_Witness ==
    /\ ret.op = "Face().generate_next_vertex"
    /\ IsRaise(ret.result)

\* C27: for a relative filename, resolve_data_path returns the path in the
\* data directory whenever the file is there, also when it is under the
\* root directory too, and raises FileNotFoundError only when the file is
\* in none of the places it searches
C27_DataDirectoryFirst ==
    (ret.op = "resolve_data_path" /\ ~input.isabs) =>
        /\ "data" \in input.found => (~IsRaise(ret) /\ ret.val = "data")
        /\ IsRaise(ret) =>
              /\ ret.raised = "FileNotFoundError"
              /\ "root" \notin input.found
              /\ "data" \notin input.found
              /\ ("walk" \notin input.found \/ ~input.isfile)

\* the elements the list was made from
Initial == IF input.is_none THEN <<>> ELSE input.elements

\* the list holds the initial elements, then the appended items in call
\* order, and the calls that read return just that
ListIsInitialThenAppended ==
    /\ items = Initial \o appended
    /\ Len(items) = Len(Initial) + Len(appended)
    /\ ret.op = "__len__" => ret.val = Len(Initial) + Len(appended)
    /\ ret.op = "__iter__" => ret.val = Initial \o appended
    /\ (ret.op = "__getitem__" /\ ~IsRaise(ret)) =>
          ret.val = (Initial \o appended)[PyIndex(ret.index, Len(items)) + 1]

\* a step of the list leaves every item where it is, and only append adds
AppendOnlyStep ==
    pc = "ready" =>
        /\ ListIsInitialThenAppended'
        /\ \A i \in 1..Len(items) : items'[i] = items[i]
        /\ Len(items') >= Len(items)
        /\ ret'.op # "append" => items' = items

\* C28: after any appends the list is the initial elements followed by the
\* appended items in call order, its length the initial count plus the
\* number of appends, and no call removes, replaces or moves an item
C28_AppendOnly == [][AppendOnlyStep]_vars

\* an item has been read back from a list that was appended to
C28_Witness ==
    /\ ret.op = "__getitem__"
    /\ ~IsRaise(ret)
    /\ Len(Initial) > 0
    /\ Len(appended) > 1

\* every face lists at least 3 pairwise distinct indices
AllFacesProper == \A k \in InputFaces : ProperFace(input.faces[k])

Twinned(h) == hes[h].opposite \notin {None, NoAttr}

\* C29: in a mesh built from faces of at least 3 pairwise distinct indices
\* a half-edge with a twin is not that twin, and the two bound different faces
C29_TwinIsAnotherFace ==
    (Built /\ AllFacesProper) =>
        \A h \in HEs :
            Twinned(h) =>
                /\ hes[h].opposite # h
                /\ hes[hes[h].opposite].face # hes[h].face

\* a linked mesh of proper faces in which two faces share an edge
C29_Witness ==
    /\ Ready
    /\ AllFacesProper
    /\ Len(input.faces) >= 2
    /\ \E h \in HEs : Twinned(h)

====
